---- MODULE Spec2Model ----
(***************************************************************************)
(* Model of the resumable batch scan of emir/Peep (src/main.go): the       *)
(* scan_progress checkpoint, the senders table, the batch loop of          *)
(* scanEmailsBatch and the helpers it calls.                               *)
(*                                                                         *)
(* Strings are sequences of one-character strings.                         *)
(***************************************************************************)
EXTENDS Integers, Sequences, FiniteSets, Bags, TLC

(***************************************************************************)
(* Bounds of the model.                                                    *)
(***************************************************************************)
\* The largest mailbox the model looks at.
MaxMessages == 1247
\* How many operations of the environment (IMAP or SQLite calls) may fail
\* over a whole behaviour.
MaxFaults == 2
\* How many times the scan is run.
MaxRuns == 3
\* The mailbox on which processBatch is followed message by message.
StreamMessages == 600
\* The longest local part of the addresses given to parseSender on its own.
MaxLocalLen == 3

(***************************************************************************)
(* Program constants.                                                      *)
(***************************************************************************)
\* parseFlags: the accepted range of -batch and its default.
MinBatchSize == 100
MaxBatchSize == 2000
DefaultBatchSize == 500

(***************************************************************************)
(* Strings.                                                                *)
(***************************************************************************)
UpperLetters ==
    << "A", "B", "C", "D", "E", "F", "G", "H", "I", "J", "K", "L", "M",
       "N", "O", "P", "Q", "R", "S", "T", "U", "V", "W", "X", "Y", "Z" >>
LowerLetters ==
    << "a", "b", "c", "d", "e", "f", "g", "h", "i", "j", "k", "l", "m",
       "n", "o", "p", "q", "r", "s", "t", "u", "v", "w", "x", "y", "z" >>
Digits == { "0", "1", "2", "3", "4", "5", "6", "7", "8", "9" }

IsUpper(c) == \E i \in 1..26 : UpperLetters[i] = c
IsLower(c) == \E i \in 1..26 : LowerLetters[i] = c

ToLowerChar(c) ==
    IF IsUpper(c) THEN LowerLetters[CHOOSE i \in 1..26 : UpperLetters[i] = c]
    ELSE c
ToUpperChar(c) ==
    IF IsLower(c) THEN UpperLetters[CHOOSE i \in 1..26 : LowerLetters[i] = c]
    ELSE c

\* strings.ToLower
ToLower(s) == [i \in 1..Len(s) |-> ToLowerChar(s[i])]

\* strings.Title: a letter is upper-cased when it starts a word; a word is a
\* run of letters, digits and underscores.
IsWordChar(c) == IsUpper(c) \/ IsLower(c) \/ c \in Digits \/ c = "_"
Title(s) ==
    [i \in 1..Len(s) |->
        IF i = 1 \/ ~IsWordChar(s[i - 1]) THEN ToUpperChar(s[i]) ELSE s[i]]

\* strings.TrimSpace
IsSpace(c) == c = " "
RECURSIVE TrimLeft(_)
TrimLeft(s) ==
    IF s # <<>> /\ IsSpace(Head(s)) THEN TrimLeft(Tail(s)) ELSE s
RECURSIVE TrimRight(_)
TrimRight(s) ==
    IF s # <<>> /\ IsSpace(s[Len(s)]) THEN TrimRight(SubSeq(s, 1, Len(s) - 1))
    ELSE s
TrimSpace(s) == TrimRight(TrimLeft(s))

\* strings.Split(emailAddr, "@")[0]: the text before the first "@".
RECURSIVE BeforeAt(_)
BeforeAt(s) ==
    IF s = <<>> \/ Head(s) = "@" THEN <<>>
    ELSE <<Head(s)>> \o BeforeAt(Tail(s))

\* regexp [._-]+ .Split(username, -1) with the empty pieces dropped (the
\* loop of extractNameFromEmail keeps only part != ""): the maximal runs of
\* characters other than '.', '_' and '-'.
\* A split on "." and "-" only.
IsNameSeparatorNoUnderscore(c) == c \in { ".", "-" }
IsNameSeparator(c) == c \in { ".", "_", "-" }
RECURSIVE NameParts(_, _)
NameParts(s, cur) ==
    IF s = <<>> THEN (IF cur = <<>> THEN <<>> ELSE <<cur>>)
    ELSE IF IsNameSeparator(Head(s))
         THEN (IF cur = <<>> THEN <<>> ELSE <<cur>>) \o NameParts(Tail(s), <<>>)
         ELSE NameParts(Tail(s), Append(cur, Head(s)))

\* strings.Join(cleanParts, " ")
RECURSIVE JoinSpace(_)
JoinSpace(parts) ==
    IF parts = <<>> THEN <<>>
    ELSE IF Len(parts) = 1 THEN parts[1]
    ELSE parts[1] \o <<" ">> \o JoinSpace(Tail(parts))

\* extractNameFromEmail
extractNameFromEmail(emailAddr) ==
    LET username == BeforeAt(emailAddr)
        nameParts == NameParts(username, <<>>)
        cleanParts == [i \in 1..Len(nameParts) |-> Title(ToLower(nameParts[i]))]
    IN  JoinSpace(cleanParts)

(***************************************************************************)
(* Senders.                                                                *)
(***************************************************************************)
\* EmailSender{}
EmptySender == [FullName |-> <<>>, Email |-> <<>>]

\* What mail.ParseAddress returns for a From header: an error, or the
\* display name and the address.
ParsedAddress(name, address) == [err |-> FALSE, Name |-> name, Address |-> address]
ParseError == [err |-> TRUE, Name |-> <<>>, Address |-> <<>>]

\* A parseSender that keeps the address as it is written.
parseSenderKeepCase(addr) ==
    IF addr.err THEN EmptySender
    ELSE LET email == addr.Address
             fullName == IF addr.Name # <<>> THEN TrimSpace(addr.Name)
                         ELSE extractNameFromEmail(email)
         IN  [FullName |-> fullName, Email |-> email]

\* parseSender, on the result of mail.ParseAddress(fromHeader)
parseSender(addr) ==
    IF addr.err THEN EmptySender
    ELSE LET email == ToLower(addr.Address)
             fullName == IF addr.Name # <<>> THEN TrimSpace(addr.Name)
                         ELSE extractNameFromEmail(email)
         IN  [FullName |-> fullName, Email |-> email]

(***************************************************************************)
(* The mailbox: what the IMAP server holds.                                *)
(***************************************************************************)
\* A message as processBatch sees it: its body section is missing
\* ("nobody"), message.Read fails on it ("unreadable"), it has no From
\* header ("nofrom"), or it has one ("from"), given by what
\* mail.ParseAddress makes of it.
Message(kind, from) == [kind |-> kind, from |-> from]

Catalog ==
    << \* 1: From: Al B <AL@x>
       Message("from", ParsedAddress(<<"A", "l", " ", "B">>, <<"A", "L", "@", "x">>)),
       \* 2: From: al@x
       Message("from", ParsedAddress(<<>>, <<"a", "l", "@", "x">>)),
       \* 3: From: bo.b_c@x
       Message("from", ParsedAddress(<<>>, <<"b", "o", ".", "b", "_", "c", "@", "x">>)),
       \* 4: From: Not An Address
       Message("from", ParseError),
       \* 5: no From header
       Message("nofrom", ParseError),
       \* 6: From: " Cy " <cy@x>
       Message("from", ParsedAddress(<<" ", "C", "y", " ">>, <<"c", "y", "@", "x">>)),
       \* 7: From: -@x
       Message("from", ParsedAddress(<<>>, <<"-", "@", "x">>)),
       \* 8: the body section is missing
       Message("nobody", ParseError),
       \* 9: message.Read fails
       Message("unreadable", ParseError),
       \* 10: From: Di@x
       Message("from", ParsedAddress(<<>>, <<"D", "i", "@", "x">>)) >>

\* The message with sequence number i: the first and the third message of
\* every hundred differ from hundred to hundred, the others are From: al@x.
CatalogIndex(i) ==
    LET r == (i - 1) \div 100
        p == (i - 1) % 100
    IN  IF p = 0 THEN (r % Len(Catalog)) + 1
        ELSE IF p = 2 THEN ((r + 5) % Len(Catalog)) + 1
        ELSE 2
MessageAt(i) == Catalog[CatalogIndex(i)]

\* The sizes the mailbox takes.
MailboxSizes == { 0, 1, 600, MaxMessages }

\* The messages the user has read, in a mailbox of n messages: the second.
SeenIn(n) == { 2 } \cap 1..n

\* A body section asked for without Peek.
sectionNoPeek == [BodyPartName |-> <<>>, Peek |-> FALSE]

\* section := &imap.BodySectionName{BodyPartName: imap.BodyPartName{},
\* Peek: true}: the whole message, BODY.PEEK[].
section == [BodyPartName |-> <<>>, Peek |-> TRUE]

\* c.Fetch(seqset, items, messages), on the flags of the mailbox: BODY[]
\* sets \Seen on the messages it returns, BODY.PEEK[] sets nothing
\* (whether the fetch ends with an error or not).
Fetch(flags, first, last, sec) ==
    IF sec.Peek THEN flags ELSE flags \cup (first..last)

(***************************************************************************)
(* processBatch                                                            *)
(***************************************************************************)
\* The body of the loop over the messages channel, up to the duplicate
\* check: the sender of one message, or EmptySender when it is skipped.
MessageSender(msg) ==
    IF msg.kind # "from" THEN EmptySender ELSE parseSender(msg.from)

\* MessageSender of every message of the catalog.
CatalogSender ==
    << MessageSender(Catalog[1]), MessageSender(Catalog[2]),
       MessageSender(Catalog[3]), MessageSender(Catalog[4]),
       MessageSender(Catalog[5]), MessageSender(Catalog[6]),
       MessageSender(Catalog[7]), MessageSender(Catalog[8]),
       MessageSender(Catalog[9]), MessageSender(Catalog[10]) >>

\* A map that keeps one sender per address and name.
AddToSenderMapPerName(senderMap, sender) ==
    senderMap @@ (<<sender.Email, sender.FullName>> :> sender)

\* The duplicate check: senderMap[sender.Email] is set only when absent.
AddToSenderMap(senderMap, sender) ==
    IF sender.Email \in DOMAIN senderMap THEN senderMap
    ELSE senderMap @@ (sender.Email :> sender)

\* An iteration that keeps the sender whatever its address.
ConsumeMessageNoSkip(senderMap, i) ==
    AddToSenderMap(senderMap, CatalogSender[CatalogIndex(i)])

\* One iteration of "for msg := range messages".
ConsumeMessage(senderMap, i) ==
    LET sender == CatalogSender[CatalogIndex(i)]
    IN  IF sender.Email = <<>> THEN senderMap
        ELSE AddToSenderMap(senderMap, sender)

\* "for msg := range messages" over the messages startUID..endUID, in the
\* order of their sequence numbers (the first half of the range, then the
\* second).
RECURSIVE ConsumeMessages(_, _, _)
ConsumeMessages(i, endUID, senderMap) ==
    IF i > endUID THEN senderMap
    ELSE IF i = endUID THEN ConsumeMessage(senderMap, i)
    ELSE \* (mid and firstHalf are bound as values: computed once)
         CHOOSE sm \in
             { ConsumeMessages(mid + 1, endUID, firstHalf) :
                 <<mid, firstHalf>> \in
                     { LET m == (i + endUID) \div 2
                       IN  <<m, ConsumeMessages(i, m, senderMap)>> } } :
             TRUE

\* processBatch when c.Fetch returns no error: the values of senderMap.
processBatch(startUID, endUID) ==
    LET senderMap == ConsumeMessages(startUID, endUID, <<>>)
    IN  { senderMap[k] : k \in DOMAIN senderMap }

(***************************************************************************)
(* The database.                                                           *)
(***************************************************************************)
\* A row of senders (id and created_at left out).
SenderRow(sender) == [full_name |-> sender.FullName, email |-> sender.Email]

\* A plain INSERT into a senders table whose email column is not UNIQUE.
InsertSender(rows, sender) ==
    rows (+) SetToBag({SenderRow(sender)})

\* INSERT OR REPLACE: the row that holds the address gives way to the new one.
InsertOrReplaceSender(rows, sender) ==
    LET kept == { r \in BagToSet(rows) : r.email # sender.Email }
    IN  [r \in kept |-> rows[r]] (+) SetToBag({SenderRow(sender)})

\* INSERT OR IGNORE INTO senders (full_name, email), email being UNIQUE.
InsertOrIgnoreSender(rows, sender) ==
    IF \E r \in BagToSet(rows) : r.email = sender.Email THEN rows
    ELSE rows (+) SetToBag({SenderRow(sender)})

RECURSIVE InsertSenders(_, _)
InsertSenders(rows, toInsert) ==
    IF toInsert = {} THEN rows
    ELSE \* (the rows after one insert are bound as a value: computed once)
         CHOOSE rowsAtEnd \in
             { InsertSenders(rowsAfter, rest) :
                 <<rowsAfter, rest>> \in
                     { LET s == CHOOSE x \in toInsert : TRUE
                       IN  <<InsertOrIgnoreSender(rows, s), toInsert \ {s}>> } } :
             TRUE

\* saveSendersBatch: the rows afterwards and the error returned. beginErr:
\* db.Begin or tx.Prepare fails; execErr: the senders whose stmt.Exec fails;
\* commitErr: tx.Commit fails.
saveSendersBatch(rows, toSave, beginErr, execErr, commitErr) ==
    IF toSave = {} THEN [rows |-> rows, err |-> FALSE]
    ELSE IF beginErr THEN [rows |-> rows, err |-> TRUE]
    ELSE IF commitErr THEN [rows |-> rows, err |-> TRUE]
    ELSE [rows |-> InsertSenders(rows, toSave \ execErr), err |-> FALSE]

\* emailExists: err is whether the query fails.
emailExists(rows, email, err) ==
    (~err) /\ (\E r \in BagToSet(rows) : r.email = email)

\* initDB: INSERT OR IGNORE INTO scan_progress (id) VALUES (1)
ZeroProgressRow ==
    [id |-> 1, last_processed_uid |-> 0, total_messages |-> 0, processed_count |-> 0]
\* INSERT OR REPLACE INTO scan_progress (id) VALUES (1): the row is zeroed.
initDBReplace(table) == {ZeroProgressRow}

\* A plain INSERT into a scan_progress table without primary key.
initDBInsert(table) == table \cup {ZeroProgressRow}

initDB(table) ==
    IF \E r \in table : r.id = 1 THEN table ELSE table \cup {ZeroProgressRow}

\* A save that writes nothing.
saveProgressNoWrite(table, p, err) == table

\* A save that leaves total_messages as it is stored.
saveProgressKeepTotal(table, p, err) ==
    IF err THEN table
    ELSE { IF r.id = 1
           THEN [r EXCEPT !.last_processed_uid = p.LastProcessedUID,
                          !.processed_count = p.ProcessedCount]
           ELSE r : r \in table }

\* saveProgress: UPDATE scan_progress SET ... WHERE id = 1
saveProgress(table, p, err) ==
    IF err THEN table
    ELSE { IF r.id = 1
           THEN [r EXCEPT !.last_processed_uid = p.LastProcessedUID,
                          !.total_messages = p.TotalMessages,
                          !.processed_count = p.ProcessedCount]
           ELSE r : r \in table }

\* loadProgress: the row with id = 1, scanned into the uint32 fields.
HasProgressRow(table) == \E r \in table : r.id = 1
loadProgress(table) ==
    LET r == CHOOSE x \in table : x.id = 1
    IN  [LastProcessedUID |-> r.last_processed_uid,
         TotalMessages |-> r.total_messages,
         ProcessedCount |-> r.processed_count]

(***************************************************************************)
(* parseFlags and the arithmetic of the batch loop. The UIDs are uint32;    *)
(* every value these operators meet in this module lies in                 *)
(* 1..MaxMessages + MaxBatchSize, where uint32 arithmetic is the arithmetic *)
(* of the integers.                                                        *)
(***************************************************************************)
\* A -batch that is taken as it is given.
parseFlagsNoClamp(b) == b

\* parseFlags: a -batch outside 100..2000 is replaced by 500.
parseFlagsBatchSize(b) ==
    IF b < MinBatchSize \/ b > MaxBatchSize THEN DefaultBatchSize ELSE b

\* The -batch values tried.
ConfigBatchSizes == { 50, 500, 1000 }

\* A start at the checkpoint itself.
StartUIDNoIncrement(lastProcessedUID) == lastProcessedUID

\* A start at the first message, whatever the checkpoint.
StartUIDAtOne(lastProcessedUID) == 1

\* startUID := progress.LastProcessedUID + 1
StartUID(lastProcessedUID) == lastProcessedUID + 1

\* A batch end that is not cut at mbox.Messages.
BatchEndUIDNoClamp(cur, batchSize, messages) == cur + batchSize - 1

\* endUID := currentUID + uint32(config.BatchSize) - 1, cut at mbox.Messages
BatchEndUID(cur, batchSize, messages) ==
    LET e == cur + batchSize - 1
    IN  IF e > messages THEN messages ELSE e

\* A step that is one short of the batch size.
NextCurrentUIDOneShort(cur, batchSize) == cur + batchSize - 1

\* currentUID += uint32(config.BatchSize)
NextCurrentUID(cur, batchSize) == cur + batchSize

\* The test of the for loop: currentUID <= mbox.Messages
LoopContinues(cur, messages) == cur <= messages

\* if startUID > mbox.Messages: all messages already processed
AllProcessed(start, messages) == start > messages

\* A failed batch that sets the checkpoint back to the start of the mailbox.
FailedBatchCheckpointZero(cur) == 0

\* progress.LastProcessedUID = currentUID - 1, on a failed batch
FailedBatchCheckpoint(cur) == cur - 1

(***************************************************************************)
(* State.                                                                  *)
(***************************************************************************)
VARIABLES
    scan_progress,  \* the table scan_progress: a set of rows
    sendersTable,   \* the table senders: a bag of rows
    inbox,          \* the number of messages the server holds in INBOX
    seen,           \* the messages of INBOX that carry the \Seen flag
    stream,         \* processBatch at work: the c.Fetch goroutines, the
                    \* channels messages and done, and senderMap
    twin,           \* two runs side by side, each on a database of its own
    parsed,         \* a From header and what parseSender makes of it
    loop,           \* the batch loop on its own, in uint32 arithmetic
    pc,             \* where main / scanEmailsBatch stands
    result,         \* what the last run returned: "none", "ok", "err"
    BatchSize,      \* config.BatchSize
    progress,       \* *Progress, the checkpoint in memory
    mboxMessages,   \* mbox.Messages, read by c.Select
    startUID,
    currentUID,
    endUID,
    senders,        \* the senders processBatch returned
    newSenders,     \* those of them emailExists did not find
    faults,         \* failures of the environment so far
    runs,           \* runs started so far
    runLog,         \* the batches this run asked for: [s, e, ok]
    fetchedOK,      \* the batches some run fetched without error:
                    \* [s, e, emails]
    lp0,            \* the stored last_processed_uid when this run began
    inserted,       \* rows this run added to senders
    saveFailed,     \* a saveProgress of this run failed
    prev,           \* the run before this one
    inboxChanged    \* INBOX changed size since the last run ended

vars ==
    << scan_progress, sendersTable, inbox, seen, stream, twin, parsed, loop,
       pc, result, BatchSize, progress, mboxMessages, startUID, currentUID,
       endUID, senders, newSenders,
       faults, runs, runLog, fetchedOK, lp0, inserted, saveFailed, prev,
       inboxChanged >>

dbVars == << scan_progress, sendersTable >>
pairVars == << twin, parsed, loop >>
loopVars == << startUID, currentUID, endUID >>
batchVars == << senders, newSenders >>
historyVars == << runs, runLog, fetchedOK, lp0, inserted, saveFailed, prev >>

\* The stored checkpoint (the row with id = 1).
Checkpoint == CHOOSE r \in scan_progress : r.id = 1

\* No processBatch is at work: no goroutine, no channel.
NoStream ==
    [fetching |-> {}, messages |-> <<>>, closed |-> FALSE, done |-> <<>>,
     senderMap |-> <<>>]

NoProgress == [LastProcessedUID |-> 0, TotalMessages |-> 0, ProcessedCount |-> 0]
NoRun ==
    [ran |-> FALSE, result |-> "none", messages |-> 0, failedThenOK |-> 0,
     inboxChanged |-> FALSE]

\* The state before the first run, on a mailbox of n messages.
InitWith(n) ==
    /\ scan_progress = {}
    /\ sendersTable = EmptyBag
    /\ inbox = n
    /\ seen = SeenIn(n)
    /\ stream = NoStream
    /\ pc = "idle"
    /\ result = "none"
    /\ BatchSize = DefaultBatchSize
    /\ progress = NoProgress
    /\ mboxMessages = 0
    /\ startUID = 0
    /\ currentUID = 0
    /\ endUID = 0
    /\ senders = {}
    /\ newSenders = {}
    /\ faults = 0
    /\ runs = 0
    /\ runLog = <<>>
    /\ fetchedOK = {}
    /\ lp0 = 0
    /\ inserted = 0
    /\ saveFailed = FALSE
    /\ prev = NoRun
    /\ inboxChanged = FALSE

\* No pair of runs is followed.
NoTwin == << >>

\* No From header is looked at on its own.
NoParse == << >>

\* The batch loop is not followed on its own.
NoLoop == << >>

Init ==
    /\ \E n \in MailboxSizes : InitWith(n)
    /\ twin = NoTwin /\ parsed = NoParse /\ loop = NoLoop

MayFail == faults < MaxFaults

\* The first batch of a run log that failed and has a fetched batch after
\* it: its first UID, or 0 when there is none.
FailedThenOK(log) ==
    LET bad == { i \in 1..Len(log) :
                   /\ ~log[i].ok
                   /\ \E j \in (i + 1)..Len(log) : log[j].ok }
    IN  IF bad = {} THEN 0
        ELSE log[CHOOSE i \in bad : \A j \in bad : i <= j].s

\* scanEmailsBatch returns before any connection was made.
ReturnEarly(r) ==
    /\ pc' = "idle"
    /\ result' = r
    /\ inboxChanged' = FALSE

\* A return on which the deferred c.Logout() does not run.
ReturnNoLogout(r) ==
    /\ pc' = "idle"
    /\ result' = r

\* scanEmailsBatch returns with the deferred c.Logout() pending.
Return(r) ==
    /\ pc' = "logout"
    /\ result' = r

(***************************************************************************)
(* main, up to the call of scanEmailsBatch: parseFlags and initDB.         *)
(***************************************************************************)
StartRun ==
    /\ pc = "idle"
    /\ \E b \in ConfigBatchSizes : BatchSize' = parseFlagsBatchSize(b)
    /\ scan_progress' = initDB(scan_progress)
    /\ pc' = "loadProgress"
    /\ result' = "none"
    /\ runLog' = <<>>
    /\ inserted' = 0
    /\ saveFailed' = FALSE
    /\ mboxMessages' = 0
    /\ startUID' = 0
    /\ lp0' = (CHOOSE r \in scan_progress' : r.id = 1).last_processed_uid
    /\ prev' = [ran |-> result # "none", result |-> result,
                messages |-> mboxMessages, failedThenOK |-> FailedThenOK(runLog),
                inboxChanged |-> inboxChanged]
    /\ UNCHANGED << sendersTable, inbox, pairVars, seen, stream, progress,
                    currentUID, endUID, batchVars, faults, fetchedOK,
                    inboxChanged >>

Main ==
    /\ runs < MaxRuns
    /\ runs' = runs + 1
    /\ StartRun

\* The scan is run again, and again.
MainAgain ==
    /\ runs >= MaxRuns
    /\ UNCHANGED runs
    /\ StartRun

(***************************************************************************)
(* scanEmailsBatch, up to the batch loop.                                  *)
(***************************************************************************)
LoadProgress ==
    /\ pc = "loadProgress"
    /\ \/ /\ HasProgressRow(scan_progress)
          /\ progress' = loadProgress(scan_progress)
          /\ pc' = "dial"
          /\ UNCHANGED << result, faults, inboxChanged >>
       \/ /\ MayFail
          /\ faults' = faults + 1
          /\ ReturnEarly("err")
          /\ UNCHANGED progress
    /\ UNCHANGED << dbVars, inbox, pairVars, seen, stream, BatchSize,
                    mboxMessages, loopVars, batchVars, historyVars >>

\* A connection error that is logged and not returned.
DialTLSIgnoresError ==
    /\ pc = "dial"
    /\ pc' = "login"
    /\ \/ UNCHANGED faults
       \/ MayFail /\ faults' = faults + 1
    /\ UNCHANGED << dbVars, inbox, pairVars, seen, stream, result, BatchSize,
                    progress, mboxMessages, loopVars, batchVars, historyVars,
                    inboxChanged >>

DialTLS ==
    /\ pc = "dial"
    /\ \/ /\ pc' = "login"
          /\ UNCHANGED << result, faults, inboxChanged, progress >>
       \/ /\ MayFail
          /\ faults' = faults + 1
          /\ ReturnEarly("err")
          /\ progress' = NoProgress
    /\ UNCHANGED << dbVars, inbox, pairVars, seen, stream, BatchSize,
                    mboxMessages, loopVars, batchVars, historyVars >>

\* A login that is followed by the batch loop, without c.Select.
LoginSkipsSelect ==
    /\ pc = "login"
    /\ \/ /\ pc' = "batch"
          /\ UNCHANGED << result, faults >>
       \/ /\ MayFail
          /\ faults' = faults + 1
          /\ Return("err")
    /\ UNCHANGED << dbVars, inbox, pairVars, seen, stream, BatchSize,
                    progress, mboxMessages, loopVars, batchVars, historyVars,
                    inboxChanged >>

Login ==
    /\ pc = "login"
    /\ \/ /\ pc' = "select"
          /\ UNCHANGED << result, faults >>
       \/ /\ MayFail
          /\ faults' = faults + 1
          /\ Return("err")
    /\ UNCHANGED << dbVars, inbox, pairVars, seen, stream, BatchSize,
                    progress, mboxMessages, loopVars, batchVars, historyVars,
                    inboxChanged >>

\* c.Select("INBOX", false) and what follows it up to the loop:
\* progress.TotalMessages is set, an empty mailbox and a start beyond the
\* mailbox return nil. (readOnly is false: the mailbox is opened with SELECT,
\* which touches neither \Seen nor the messages.)
Select ==
    /\ pc = "select"
    /\ \/ /\ mboxMessages' = inbox
          /\ progress' = [progress EXCEPT !.TotalMessages = inbox]
          /\ IF inbox = 0
             THEN /\ Return("ok")
                  /\ UNCHANGED loopVars
             ELSE /\ startUID' = StartUID(progress.LastProcessedUID)
                  /\ IF AllProcessed(startUID', inbox)
                     THEN /\ Return("ok")
                          /\ UNCHANGED << currentUID, endUID >>
                     ELSE /\ currentUID' = startUID'
                          /\ UNCHANGED endUID
                          /\ IF LoopContinues(currentUID', inbox)
                             THEN pc' = "batch" /\ UNCHANGED result
                             ELSE Return("ok")
          /\ UNCHANGED faults
       \/ /\ MayFail
          /\ faults' = faults + 1
          /\ Return("err")
          /\ UNCHANGED << progress, mboxMessages, loopVars >>
    /\ UNCHANGED << dbVars, inbox, pairVars, seen, stream, BatchSize,
                    batchVars, historyVars, inboxChanged >>

(***************************************************************************)
(* The batch loop of scanEmailsBatch.                                      *)
(***************************************************************************)
Emails(ss) == { s.Email : s \in ss }
TableEmails == { r.email : r \in BagToSet(sendersTable) }

\* The end of an iteration: currentUID += BatchSize, and the loop's test.
LoopStep ==
    /\ currentUID' = NextCurrentUID(currentUID, BatchSize)
    /\ IF LoopContinues(currentUID', mboxMessages)
       THEN /\ pc' = "batch"
            /\ UNCHANGED result
       ELSE Return("ok")

\* The batch range is computed and processBatch is called: c.Fetch returns
\* nil and the senders of the range come back, or it returns an error.
ProcessBatch ==
    /\ pc = "batch"
    /\ endUID' = BatchEndUID(currentUID, BatchSize, mboxMessages)
    /\ \/ /\ senders' = processBatch(currentUID, endUID')
          /\ pc' = "filter"
          /\ runLog' = Append(runLog, [s |-> currentUID, e |-> endUID', ok |-> TRUE])
          /\ fetchedOK' = fetchedOK \cup
                 { [s |-> currentUID, e |-> endUID', emails |-> Emails(senders')] }
          /\ UNCHANGED faults
       \/ /\ MayFail
          /\ faults' = faults + 1
          /\ senders' = {}
          /\ pc' = "batchError"
          /\ runLog' = Append(runLog, [s |-> currentUID, e |-> endUID', ok |-> FALSE])
          /\ UNCHANGED fetchedOK
    /\ seen' = Fetch(seen, currentUID, endUID', section)
    /\ UNCHANGED << dbVars, inbox, pairVars, stream, result, BatchSize,
                    progress, mboxMessages, startUID, currentUID, newSenders,
                    runs, lp0, inserted, saveFailed, prev, inboxChanged >>

\* saveProgress(db, progress) with progress as it will be.
SaveProgress ==
    \/ /\ scan_progress' = saveProgress(scan_progress, progress', FALSE)
       /\ UNCHANGED << faults, saveFailed >>
    \/ /\ MayFail
       /\ faults' = faults + 1
       /\ saveFailed' = TRUE
       /\ scan_progress' = saveProgress(scan_progress, progress', TRUE)

\* A failed batch that ends the run with its error.
BatchErrorAborts ==
    /\ pc = "batchError"
    /\ progress' = [progress EXCEPT !.LastProcessedUID = FailedBatchCheckpoint(currentUID)]
    /\ SaveProgress
    /\ Return("err")
    /\ UNCHANGED << sendersTable, inbox, pairVars, seen, stream, BatchSize,
                    mboxMessages, loopVars, batchVars, runs, runLog,
                    fetchedOK, lp0, inserted, prev, inboxChanged >>

\* A failed batch that is counted as processed.
BatchErrorCounts ==
    /\ pc = "batchError"
    /\ progress' = [progress EXCEPT
           !.LastProcessedUID = FailedBatchCheckpoint(currentUID),
           !.ProcessedCount = endUID]
    /\ SaveProgress
    /\ LoopStep
    /\ UNCHANGED << sendersTable, inbox, pairVars, seen, stream, BatchSize,
                    mboxMessages, startUID, endUID, batchVars, runs, runLog,
                    fetchedOK, lp0, inserted, prev, inboxChanged >>

\* processBatch returned an error: progress.LastProcessedUID = currentUID - 1,
\* saveProgress (its error is dropped), continue.
BatchError ==
    /\ pc = "batchError"
    /\ progress' = [progress EXCEPT !.LastProcessedUID = FailedBatchCheckpoint(currentUID)]
    /\ SaveProgress
    /\ LoopStep
    /\ UNCHANGED << sendersTable, inbox, pairVars, seen, stream, BatchSize,
                    mboxMessages, startUID, endUID, batchVars, runs, runLog,
                    fetchedOK, lp0, inserted, prev, inboxChanged >>

\* The senders emailExists does not find are kept; lookupErr are the
\* addresses whose query fails.
FilterNewSenders ==
    /\ pc = "filter"
    /\ \E lookupErr \in SUBSET Emails(senders) :
          /\ lookupErr # {} => MayFail
          /\ faults' = IF lookupErr # {} THEN faults + 1 ELSE faults
          /\ newSenders' =
                 { s \in senders :
                     ~emailExists(sendersTable, s.Email, s.Email \in lookupErr) }
    /\ pc' = "save"
    /\ UNCHANGED << dbVars, inbox, pairVars, seen, stream, result, BatchSize,
                    progress, mboxMessages, loopVars, senders, historyVars,
                    inboxChanged >>

\* if len(newSenders) > 0 { saveSendersBatch(...) }: its error is logged.
SaveSenders ==
    /\ pc = "save"
    /\ \E beginErr \in BOOLEAN, commitErr \in BOOLEAN,
          execErr \in SUBSET Emails(newSenders) :
          LET failing == beginErr \/ commitErr \/ execErr # {}
              saved == saveSendersBatch(sendersTable,
                                        newSenders,
                                        beginErr,
                                        { s \in newSenders : s.Email \in execErr },
                                        commitErr)
          IN  /\ ~(beginErr /\ commitErr)
              /\ (beginErr \/ commitErr) => execErr = {}
              /\ failing => (MayFail /\ newSenders # {})
              /\ faults' = IF failing THEN faults + 1 ELSE faults
              /\ sendersTable' = saved.rows
              /\ inserted' = inserted + BagCardinality(saved.rows)
                                      - BagCardinality(sendersTable)
    /\ pc' = "update"
    /\ UNCHANGED << scan_progress, inbox, pairVars, seen, stream, result,
                    BatchSize, progress, mboxMessages, loopVars, batchVars,
                    runs, runLog, fetchedOK, lp0, saveFailed, prev,
                    inboxChanged >>

\* progress.LastProcessedUID = endUID, progress.ProcessedCount = endUID,
\* saveProgress (its error is logged), and the loop goes on.
UpdateProgress ==
    /\ pc = "update"
    /\ progress' = [progress EXCEPT !.LastProcessedUID = endUID,
                                    !.ProcessedCount = endUID]
    /\ SaveProgress
    /\ LoopStep
    /\ UNCHANGED << sendersTable, inbox, pairVars, seen, stream, BatchSize,
                    mboxMessages, startUID, endUID, batchVars, runs, runLog,
                    fetchedOK, lp0, inserted, prev, inboxChanged >>

\* The deferred c.Logout() runs and scanEmailsBatch has returned; the
\* process ends, and with it everything it held in memory.
Logout ==
    /\ pc = "logout"
    /\ pc' = "idle"
    /\ inboxChanged' = FALSE
    /\ BatchSize' = DefaultBatchSize
    /\ progress' = NoProgress
    /\ currentUID' = 0
    /\ endUID' = 0
    /\ senders' = {}
    /\ newSenders' = {}
    /\ UNCHANGED << dbVars, inbox, pairVars, seen, stream, result,
                    mboxMessages, startUID, faults, historyVars >>

(***************************************************************************)
(* The environment between two runs: mail arrives or is deleted.           *)
(***************************************************************************)
InboxChanges ==
    /\ pc = "idle"
    /\ result # "none"
    /\ ~inboxChanged
    /\ inbox' \in MailboxSizes \ {inbox}
    /\ seen' = SeenIn(inbox')
    /\ inboxChanged' = TRUE
    /\ UNCHANGED << dbVars, stream, pairVars, pc, result, BatchSize, progress,
                    mboxMessages, loopVars, batchVars, faults, historyVars >>

Next ==
    \/ Main
    \/ LoadProgress
    \/ DialTLS
    \/ Login
    \/ Select
    \/ ProcessBatch
    \/ BatchError
    \/ FilterNewSenders
    \/ SaveSenders
    \/ UpdateProgress
    \/ Logout
    \/ InboxChanges

Spec == Init /\ [][Next]_vars

\* The scan run over and over on a mailbox that does not change; every step
\* of a run is taken sooner or later, and so is the next run.
NextLive ==
    \/ Main
    \/ MainAgain
    \/ LoadProgress
    \/ DialTLS
    \/ Login
    \/ Select
    \/ ProcessBatch
    \/ BatchError
    \/ FilterNewSenders
    \/ SaveSenders
    \/ UpdateProgress
    \/ Logout

LiveSpec == Init /\ [][NextLive]_vars /\ WF_vars(NextLive)

(***************************************************************************)
(* processBatch step by step: the goroutine that runs c.Fetch, the         *)
(* channels messages and done, and the loop over messages.                 *)
(***************************************************************************)
\* messages := make(chan *imap.Message, 50)
MessagesCap == 50

\* The goroutine started for the batch processBatch is working on.
CurrentFetch(f) == f.first = currentUID

\* A loop over messages that ends as soon as the channel is empty.
RangeEndsWhenEmpty(ch, closed) == ch = <<>>

\* "for msg := range messages" ends when the channel is closed and empty.
RangeEnds(ch, closed) == ch = <<>> /\ closed

\* The batch range is computed and processBatch is called: the channels
\* are made and "go func() { done <- c.Fetch(...) }()" is started.
StartFetch ==
    /\ pc = "batch"
    /\ endUID' = BatchEndUID(currentUID, BatchSize, mboxMessages)
    /\ stream' =
           [fetching |-> stream.fetching \cup
                { [first |-> currentUID, last |-> endUID', next |-> currentUID,
                   returned |-> FALSE, err |-> FALSE] },
            messages |-> <<>>, closed |-> FALSE, done |-> <<>>,
            senderMap |-> <<>>]
    /\ pc' = "range"
    /\ UNCHANGED << dbVars, inbox, pairVars, seen, result, BatchSize,
                    progress, mboxMessages, startUID, currentUID, batchVars,
                    faults, historyVars, inboxChanged >>

\* A c.Fetch that drops the message when the channel is full.
FetchDeliverDrops ==
    /\ \E f \in stream.fetching :
          /\ CurrentFetch(f) /\ ~f.returned
          /\ f.next <= f.last
          /\ stream' = [stream EXCEPT
                 !.fetching = (@ \ {f}) \cup {[f EXCEPT !.next = @ + 1]},
                 !.messages = IF Len(@) < MessagesCap THEN Append(@, f.next)
                              ELSE @]
          /\ seen' = Fetch(seen, f.next, f.next, section)
    /\ UNCHANGED << dbVars, inbox, pairVars, pc, result, BatchSize, progress,
                    mboxMessages, loopVars, batchVars, faults, historyVars,
                    inboxChanged >>

\* c.Fetch sends the next message of the range on messages (it waits while
\* the channel is full).
FetchDeliver ==
    /\ \E f \in stream.fetching :
          /\ CurrentFetch(f) /\ ~f.returned
          /\ f.next <= f.last
          /\ Len(stream.messages) < MessagesCap
          /\ stream' = [stream EXCEPT
                 !.fetching = (@ \ {f}) \cup {[f EXCEPT !.next = @ + 1]},
                 !.messages = Append(@, f.next)]
          /\ seen' = Fetch(seen, f.next, f.next, section)
    /\ UNCHANGED << dbVars, inbox, pairVars, pc, result, BatchSize, progress,
                    mboxMessages, loopVars, batchVars, faults, historyVars,
                    inboxChanged >>

\* c.Fetch returns, with nil after the last message of the range or with an
\* error at any point, and has closed messages.
FetchReturn ==
    /\ \E f \in stream.fetching :
          /\ CurrentFetch(f) /\ ~f.returned
          /\ \E err \in BOOLEAN :
                /\ IF err THEN MayFail /\ faults' = faults + 1
                          ELSE f.next > f.last /\ UNCHANGED faults
                /\ stream' = [stream EXCEPT
                       !.fetching = (@ \ {f}) \cup
                           {[f EXCEPT !.returned = TRUE, !.err = err]},
                       !.closed = TRUE]
    /\ UNCHANGED << dbVars, inbox, pairVars, seen, pc, result, BatchSize,
                    progress, mboxMessages, loopVars, batchVars, historyVars,
                    inboxChanged >>

\* done <- (what c.Fetch returned), and the goroutine ends.
SendDone ==
    /\ \E f \in stream.fetching :
          /\ f.returned
          /\ stream' = [stream EXCEPT !.fetching = @ \ {f},
                                      !.done = Append(@, f.err)]
    /\ UNCHANGED << dbVars, inbox, pairVars, seen, pc, result, BatchSize,
                    progress, mboxMessages, loopVars, batchVars, faults,
                    historyVars, inboxChanged >>

\* One iteration of "for msg := range messages".
RangeNext ==
    /\ pc = "range"
    /\ stream.messages # <<>>
    /\ stream' = [stream EXCEPT
           !.messages = Tail(@),
           !.senderMap = ConsumeMessage(@, Head(stream.messages))]
    /\ UNCHANGED << dbVars, inbox, pairVars, seen, pc, result, BatchSize,
                    progress, mboxMessages, loopVars, batchVars, faults,
                    historyVars, inboxChanged >>

\* The loop over messages ends.
RangeEnd ==
    /\ pc = "range"
    /\ RangeEnds(stream.messages, stream.closed)
    /\ pc' = "done"
    /\ UNCHANGED << dbVars, inbox, pairVars, seen, stream, result, BatchSize,
                    progress, mboxMessages, loopVars, batchVars, faults,
                    historyVars, inboxChanged >>

\* err := <-done, and processBatch returns: the error, or the values of
\* senderMap.
ReceiveDone ==
    /\ pc = "done"
    /\ stream.done # <<>>
    /\ stream' = [stream EXCEPT !.done = Tail(@), !.senderMap = <<>>]
    /\ IF Head(stream.done)
       THEN /\ senders' = {}
            /\ pc' = "batchError"
            /\ runLog' = Append(runLog, [s |-> currentUID, e |-> endUID, ok |-> FALSE])
            /\ UNCHANGED fetchedOK
       ELSE /\ senders' = { stream.senderMap[k] : k \in DOMAIN stream.senderMap }
            /\ pc' = "filter"
            /\ runLog' = Append(runLog, [s |-> currentUID, e |-> endUID, ok |-> TRUE])
            /\ fetchedOK' = fetchedOK \cup
                   { [s |-> currentUID, e |-> endUID, emails |-> Emails(senders')] }
    /\ UNCHANGED << dbVars, inbox, pairVars, seen, result, BatchSize,
                    progress, mboxMessages, loopVars, newSenders, faults,
                    runs, lp0, inserted, saveFailed, prev, inboxChanged >>

\* One run.
MainOnce ==
    /\ runs = 0
    /\ runs' = 1
    /\ StartRun

StreamInit ==
    /\ InitWith(StreamMessages)
    /\ twin = NoTwin /\ parsed = NoParse /\ loop = NoLoop

StreamNext ==
    \/ MainOnce
    \/ LoadProgress
    \/ DialTLS
    \/ Login
    \/ Select
    \/ StartFetch
    \/ FetchDeliver
    \/ FetchReturn
    \/ SendDone
    \/ RangeNext
    \/ RangeEnd
    \/ ReceiveDone
    \/ BatchError
    \/ FilterNewSenders
    \/ SaveSenders
    \/ UpdateProgress
    \/ Logout

StreamSpec == StreamInit /\ [][StreamNext]_vars

(***************************************************************************)
(* scanEmailsBatch as a function of the state of a run, to follow two runs *)
(* that meet the same outcomes of the fetches and of the database calls.   *)
(***************************************************************************)
\* A run about to call scanEmailsBatch on its database.
RunOn(checkpoint, rows) ==
    [scan_progress |-> {checkpoint}, sendersTable |-> rows,
     progress |-> NoProgress, currentUID |-> 0, runLog |-> <<>>,
     pc |-> "start", result |-> "none"]

\* What one iteration of the batch loop meets: whether c.Fetch fails, the
\* addresses whose emailExists query fails, how saveSendersBatch fails and
\* whether saveProgress fails.
Outcomes ==
    [fetchErr : BOOLEAN,
     lookupErr : { {}, { <<"a", "l", "@", "x">> } },
     beginErr : BOOLEAN,
     execErr : { {}, { <<"a", "l", "@", "x">> } },
     commitErr : BOOLEAN,
     saveErr : BOOLEAN]

\* A resume from the count of processed messages.
RunBeginFromCount(st, messages) ==
    LET p == [loadProgress(st.scan_progress) EXCEPT !.TotalMessages = messages]
        start == StartUID(p.ProcessedCount)
    IN  IF messages = 0 \/ AllProcessed(start, messages)
            \/ ~LoopContinues(start, messages)
        THEN [st EXCEPT !.progress = p, !.pc = "returned", !.result = "ok"]
        ELSE [st EXCEPT !.progress = p, !.currentUID = start, !.pc = "batch"]

\* loadProgress, c.Select and what follows it up to the loop.
RunBegin(st, messages) ==
    LET p == [loadProgress(st.scan_progress) EXCEPT !.TotalMessages = messages]
        start == StartUID(p.LastProcessedUID)
    IN  IF messages = 0 \/ AllProcessed(start, messages)
            \/ ~LoopContinues(start, messages)
        THEN [st EXCEPT !.progress = p, !.pc = "returned", !.result = "ok"]
        ELSE [st EXCEPT !.progress = p, !.currentUID = start, !.pc = "batch"]

\* One iteration of the batch loop, with the outcome o.
RunBatch(st, messages, batchSize, o) ==
    LET cur == st.currentUID
        last == BatchEndUID(cur, batchSize, messages)
        next == NextCurrentUID(cur, batchSize)
        after == IF LoopContinues(next, messages) THEN "batch" ELSE "returned"
        res == IF after = "returned" THEN "ok" ELSE st.result
    IN  IF o.fetchErr
        THEN LET p == [st.progress EXCEPT
                          !.LastProcessedUID = FailedBatchCheckpoint(cur)]
             IN  [st EXCEPT
                     !.progress = p,
                     !.scan_progress = saveProgress(@, p, o.saveErr),
                     !.runLog = Append(@, [s |-> cur, e |-> last, ok |-> FALSE]),
                     !.currentUID = next, !.pc = after, !.result = res]
        ELSE LET found == processBatch(cur, last)
                 new == { s \in found :
                            ~emailExists(st.sendersTable, s.Email,
                                         s.Email \in o.lookupErr) }
                 saved == saveSendersBatch(st.sendersTable, new, o.beginErr,
                              { s \in new : s.Email \in o.execErr }, o.commitErr)
                 p == [st.progress EXCEPT !.LastProcessedUID = last,
                                          !.ProcessedCount = last]
             IN  [st EXCEPT
                     !.sendersTable = saved.rows,
                     !.progress = p,
                     !.scan_progress = saveProgress(@, p, o.saveErr),
                     !.runLog = Append(@, [s |-> cur, e |-> last, ok |-> TRUE]),
                     !.currentUID = next, !.pc = after, !.result = res]

\* Checkpoints that runs leave behind on mailboxes of 600 and of
\* MaxMessages messages, with batches of 500.
StoredCheckpoints ==
    { [id |-> 1, last_processed_uid |-> 500, total_messages |-> t,
       processed_count |-> c] : t \in { 600, MaxMessages }, c \in { 0, 500 } }
    \cup
    { [id |-> 1, last_processed_uid |-> 1000, total_messages |-> MaxMessages,
       processed_count |-> c] : c \in { 0, 500, 1000 } }

\* The senders tables that go with them.
StoredSenders == { EmptyBag, InsertSenders(EmptyBag, processBatch(1, 500)) }

\* Two runs start from the same last_processed_uid and the same senders,
\* with another processed_count, and another total_messages or the same.
TwinStarts ==
    { [a |-> RunOn(ca, rows), b |-> RunOn(cb, rows),
       BatchSize |-> parseFlagsBatchSize(bs)] :
        ca \in StoredCheckpoints, cb \in StoredCheckpoints,
        rows \in StoredSenders, bs \in ConfigBatchSizes }

TwinInit ==
    /\ \E n \in MailboxSizes : InitWith(n)
    /\ parsed = NoParse /\ loop = NoLoop
    /\ twin \in { t \in TwinStarts :
                    \A x \in t.a.scan_progress, y \in t.b.scan_progress :
                        /\ x.last_processed_uid = y.last_processed_uid
                        /\ x.processed_count # y.processed_count }

TwinBegin ==
    /\ twin.a.pc = "start"
    /\ twin' = [twin EXCEPT !.a = RunBegin(@, inbox), !.b = RunBegin(@, inbox)]
    /\ UNCHANGED << dbVars, inbox, seen, stream, parsed, loop, pc, result,
                    BatchSize, progress, mboxMessages, loopVars, batchVars,
                    faults, historyVars, inboxChanged >>

\* Both runs go through an iteration of the loop and meet the same outcome.
TwinBatch ==
    /\ twin.a.pc = "batch" \/ twin.b.pc = "batch"
    /\ \E o \in Outcomes :
          /\ ~(o.beginErr /\ o.commitErr)
          /\ (o.beginErr \/ o.commitErr) => o.execErr = {}
          /\ o.fetchErr =>
                 (o.lookupErr = {} /\ ~o.beginErr /\ ~o.commitErr /\ o.execErr = {})
          /\ twin' = [twin EXCEPT
                 !.a = IF @.pc = "batch"
                       THEN RunBatch(@, inbox, twin.BatchSize, o) ELSE @,
                 !.b = IF @.pc = "batch"
                       THEN RunBatch(@, inbox, twin.BatchSize, o) ELSE @]
    /\ UNCHANGED << dbVars, inbox, seen, stream, parsed, loop, pc, result,
                    BatchSize, progress, mboxMessages, loopVars, batchVars,
                    faults, historyVars, inboxChanged >>

TwinNext ==
    \/ TwinBegin
    \/ TwinBatch

TwinSpec == TwinInit /\ [][TwinNext]_vars

(***************************************************************************)
(* parseSender on its own, on From headers of every shape.                 *)
(***************************************************************************)
\* The local parts: every string of up to MaxLocalLen characters out of
\* letters of both cases, a digit and the three separators.
LocalParts ==
    UNION { [1..k -> { "a", "B", "2", ".", "_", "-" }] : k \in 0..MaxLocalLen }

\* The display names: none, one within spaces, one with a space inside, one
\* of spaces only.
DisplayNames ==
    { <<>>, <<" ", "C", "y", " ">>, <<"A", "l", " ", "B">>, <<" ", " ">> }

\* What mail.ParseAddress returns for the From headers tried.
FromHeaders ==
    { ParsedAddress(name, local \o <<"@", "x">>) :
        name \in DisplayNames, local \in LocalParts }
    \cup
    { ParsedAddress(<<>>, local \o <<"@", "x", ".", "c", "o", "m">>) :
        local \in { <<"j", "o", "h", "n", ".", "d", "o", "e">>,
                    <<"j", "o", "h", "n", ".", "d", "o", "e", "_",
                      "s", "m", "i", "t", "h">>,
                    <<"J", "o", "h", "n", "-", "-", "D", "O", "E">>,
                    <<"a">> } }

ParseInit ==
    /\ InitWith(0)
    /\ twin = NoTwin /\ loop = NoLoop
    /\ parsed \in { [addr |-> h, sender |-> EmptySender, derived |-> <<>>,
                     done |-> FALSE] : h \in FromHeaders }

\* parseSender(fromHeader), and extractNameFromEmail on the address as it
\* is written.
ParseSender ==
    /\ ~parsed.done
    /\ parsed' = [parsed EXCEPT !.sender = parseSender(parsed.addr),
                                !.derived = extractNameFromEmail(parsed.addr.Address),
                                !.done = TRUE]
    /\ UNCHANGED << dbVars, inbox, seen, stream, twin, loop, pc, result,
                    BatchSize,
                    progress, mboxMessages, loopVars, batchVars, faults,
                    historyVars, inboxChanged >>

ParseNext == ParseSender

ParseSpec == ParseInit /\ [][ParseNext]_vars

(***************************************************************************)
(* The batch loop of scanEmailsBatch on its own, in the arithmetic of the  *)
(* program: LastProcessedUID, mbox.Messages, startUID, currentUID and      *)
(* endUID are uint32. A uint32 is kept as the pair <<hi, lo>> of its       *)
(* 16-bit halves, its value being hi * 65536 + lo.                         *)
(***************************************************************************)
Half == 65536

\* uint32(n), for an int n.
ToUint32(n) == << (n \div Half) % Half, n % Half >>

\* a + b and a - b modulo 2^32.
Add32(a, b) ==
    LET lo == a[2] + b[2]
    IN  << (a[1] + b[1] + (lo \div Half)) % Half, lo % Half >>
Sub32(a, b) ==
    LET lo == a[2] - b[2]
    IN  << (a[1] - b[1] + (lo \div Half)) % Half, lo % Half >>

\* a < b and a <= b.
Lt32(a, b) == a[1] < b[1] \/ (a[1] = b[1] /\ a[2] < b[2])
Leq32(a, b) == a = b \/ Lt32(a, b)

\* startUID := progress.LastProcessedUID + 1
StartUID32(lastProcessedUID) == Add32(lastProcessedUID, ToUint32(1))

\* endUID := currentUID + uint32(config.BatchSize) - 1, cut at mbox.Messages
BatchEndUID32(cur, batchSize, messages) ==
    LET e == Sub32(Add32(cur, ToUint32(batchSize)), ToUint32(1))
    IN  IF Lt32(messages, e) THEN messages ELSE e

\* currentUID += uint32(config.BatchSize)
NextCurrentUID32(cur, batchSize) == Add32(cur, ToUint32(batchSize))

\* The test of the for loop: currentUID <= mbox.Messages
LoopContinues32(cur, messages) == Leq32(cur, messages)

\* if startUID > mbox.Messages: all messages already processed
AllProcessed32(start, messages) == Lt32(messages, start)

\* progress.LastProcessedUID = currentUID - 1, on a failed batch
FailedBatchCheckpoint32(cur) == Sub32(cur, ToUint32(1))

\* How many iterations of the loop are followed.
MaxBatches == 50

\* A run about to call parseFlags: -batch is flag, the stored
\* last_processed_uid is lp and INBOX holds messages messages.
LoopOn(flag, lp, messages) ==
    [flag |-> flag, BatchSize |-> 0, Messages |-> messages,
     LastProcessedUID |-> lp, startUID |-> ToUint32(0),
     currentUID |-> ToUint32(0), endUID |-> ToUint32(0),
     pc |-> "flags", batches |-> 0]

\* parseFlags: config.BatchSize.
LoopParseFlags ==
    /\ loop.pc = "flags"
    /\ loop' = [loop EXCEPT !.BatchSize = parseFlagsBatchSize(loop.flag),
                            !.pc = "select"]
    /\ UNCHANGED << dbVars, inbox, seen, stream, twin, parsed, pc, result,
                    BatchSize, progress, mboxMessages, loopVars, batchVars,
                    faults, historyVars, inboxChanged >>

\* From c.Select to the first test of the loop: an empty mailbox and a
\* start beyond the mailbox return nil.
LoopSelect ==
    /\ loop.pc = "select"
    /\ LET start == StartUID32(loop.LastProcessedUID)
       IN  loop' =
               IF loop.Messages = ToUint32(0) THEN [loop EXCEPT !.pc = "returned"]
               ELSE IF AllProcessed32(start, loop.Messages)
               THEN [loop EXCEPT !.startUID = start, !.pc = "returned"]
               ELSE [loop EXCEPT
                        !.startUID = start, !.currentUID = start,
                        !.pc = IF LoopContinues32(start, loop.Messages)
                               THEN "batch" ELSE "returned"]
    /\ UNCHANGED << dbVars, inbox, seen, stream, twin, parsed, pc, result,
                    BatchSize, progress, mboxMessages, loopVars, batchVars,
                    faults, historyVars, inboxChanged >>

\* The batch range is computed and processBatch is called.
LoopBatchRange ==
    /\ loop.pc = "batch"
    /\ loop.batches < MaxBatches
    /\ loop' = [loop EXCEPT
           !.endUID = BatchEndUID32(loop.currentUID, loop.BatchSize,
                                    loop.Messages),
           !.batches = @ + 1,
           !.pc = "fetch"]
    /\ UNCHANGED << dbVars, inbox, seen, stream, twin, parsed, pc, result,
                    BatchSize, progress, mboxMessages, loopVars, batchVars,
                    faults, historyVars, inboxChanged >>

\* processBatch returns, with an error or without: the checkpoint is set,
\* currentUID += uint32(config.BatchSize), and the loop's test.
LoopProcessBatch ==
    /\ loop.pc = "fetch"
    /\ \E err \in BOOLEAN :
          LET next == NextCurrentUID32(loop.currentUID, loop.BatchSize)
          IN  loop' = [loop EXCEPT
                  !.LastProcessedUID =
                      IF err THEN FailedBatchCheckpoint32(loop.currentUID)
                      ELSE loop.endUID,
                  !.currentUID = next,
                  !.pc = IF LoopContinues32(next, loop.Messages)
                         THEN "batch" ELSE "returned"]
    /\ UNCHANGED << dbVars, inbox, seen, stream, twin, parsed, pc, result,
                    BatchSize, progress, mboxMessages, loopVars, batchVars,
                    faults, historyVars, inboxChanged >>

LoopNext ==
    \/ LoopParseFlags
    \/ LoopSelect
    \/ LoopBatchRange
    \/ LoopProcessBatch

\* The -batch values given: below, at the ends of, within and above
\* 100..2000.
FlagValues == { -1, 0, 99, 100, 101, 500, 2000, 2001, 70000 }

\* Mailboxes and checkpoints far below 2^32.
FlagSizes == { ToUint32(n) : n \in { 0, 1, 100, 2000, 2001, 4321 } }
FlagCheckpoints == { ToUint32(n) : n \in { 0, 100, 2001, 4321 } }

FlagInit ==
    /\ InitWith(0)
    /\ twin = NoTwin /\ parsed = NoParse
    /\ loop \in { LoopOn(f, lp, n) :
                     f \in FlagValues, lp \in FlagCheckpoints, n \in FlagSizes }

FlagSpec == FlagInit /\ [][LoopNext]_vars

\* The -batch values, the mailboxes and the checkpoints over the whole range
\* of uint32: uint32(-n) is 2^32 - n.
WideFlags == { 100, 500, 2000 }
WideSizes == { ToUint32(n) : n \in { 1, 600, -1, -100, -2001 } }
WideCheckpoints == { ToUint32(n) : n \in { 0, 500, -1, -101, -2500, -4000 } }

WideInit ==
    /\ InitWith(0)
    /\ twin = NoTwin /\ parsed = NoParse
    /\ loop \in { LoopOn(f, lp, n) :
                     f \in WideFlags, lp \in WideCheckpoints, n \in WideSizes }

WideSpec == WideInit /\ [][LoopNext]_vars

(***************************************************************************)
(* What the properties below speak of.                                     *)
(***************************************************************************)
\* The stored checkpoint's fields (0 before the first initDB).
StoredLastProcessedUID ==
    IF HasProgressRow(scan_progress) THEN Checkpoint.last_processed_uid ELSE 0
StoredProcessedCount ==
    IF HasProgressRow(scan_progress) THEN Checkpoint.processed_count ELSE 0

\* Some run fetched message i without error.
Fetched(i) == \E r \in fetchedOK : r.s <= i /\ i <= r.e

\* The addresses of the parsable From headers of a mailbox of each size.
InboxEmails == { <<n, Emails(processBatch(1, n))>> : n \in MailboxSizes }

\* A run has ended and returned nil; no other run has begun.
RunReturnedOK == pc = "idle" /\ result = "ok"

\* The batches of a log are the UIDs a..b in order, without gap or overlap
\* (no batch when a > b).
Covers(log, a, b) ==
    IF a > b THEN log = <<>>
    ELSE /\ log # <<>>
         /\ log[1].s = a
         /\ log[Len(log)].e = b
         /\ \A k \in 1..(Len(log) - 1) : log[k + 1].s = log[k].e + 1

Min(a, b) == IF a <= b THEN a ELSE b

(***************************************************************************)
(* C1. When a batch fails in a run and a later batch of that run is        *)
(* fetched, the next run starts at the first UID of the failed batch.      *)
(***************************************************************************)
C1_ResumeAtFailedBatch ==
    (startUID # 0 /\ prev.failedThenOK # 0) => startUID = prev.failedThenOK

(***************************************************************************)
(* C2. Every UID up to the stored last_processed_uid belongs to a batch    *)
(* that some run fetched without error.                                    *)
(***************************************************************************)
C2_ContiguousPrefix ==
    \A i \in 1..StoredLastProcessedUID : Fetched(i)

(***************************************************************************)
(* C3. Run again and again on an unchanged mailbox, with finitely many     *)
(* failures, the scan eventually has fetched every UID of the mailbox and  *)
(* stored the sender of every parsable From header.                        *)
(***************************************************************************)
AllFetchedAndStored ==
    /\ \A i \in 1..inbox : Fetched(i)
    /\ \A m \in InboxEmails : m[1] = inbox => m[2] \subseteq TableEmails
C3_EventualCompletion == <>AllFetchedAndStored

(***************************************************************************)
(* C4. On a failed batch the value written, currentUID - 1, is the value   *)
(* the stored checkpoint already holds.                                    *)
(***************************************************************************)
C4_FailedBatchKeepsCheckpoint ==
    pc = "batchError" =>
        FailedBatchCheckpoint(currentUID) = StoredLastProcessedUID

(***************************************************************************)
(* C5. No two rows of senders share an email: every address is stored at   *)
(* most once, however often it was seen.                                   *)
(***************************************************************************)
C5_DedupInvariant ==
    /\ \A r \in BagToSet(sendersTable) : CopiesIn(r, sendersTable) = 1
    /\ \A r1, r2 \in BagToSet(sendersTable) : r1.email = r2.email => r1 = r2
    /\ BagCardinality(sendersTable) = Cardinality(TableEmails)

\* An address seen in two fetched batches, once when it was already stored
\* and its lookup failed, is stored.
C5_Witness ==
    /\ pc = "update"
    /\ \E r1, r2 \in fetchedOK :
          /\ r1 # r2
          /\ \E e \in r1.emails \cap r2.emails :
                /\ e \in TableEmails
                /\ e \in Emails(newSenders)
                /\ inserted = 0

(***************************************************************************)
(* C6. Idempotent rerun. As claimed: a run that follows a run on the same  *)
(* mailbox fetches nothing, inserts nothing and leaves last_processed_uid. *)
(***************************************************************************)
RerunDoesNothing ==
    /\ runLog = <<>>
    /\ inserted = 0
    /\ StoredLastProcessedUID = lp0
C6_IdempotentRerun_AsClaimed ==
    (prev.ran /\ prev.result = "ok" /\ ~prev.inboxChanged) => RerunDoesNothing

\* C6 as amended: ... when the first run left last_processed_uid at the
\* mailbox size (prev.messages, the size both runs see) or beyond.
C6_IdempotentRerun ==
    (prev.ran /\ prev.result = "ok" /\ ~prev.inboxChanged /\ lp0 >= prev.messages)
        => RerunDoesNothing

\* The second of two runs on a mailbox with messages has returned.
C6_Witness ==
    /\ prev.ran /\ prev.result = "ok" /\ ~prev.inboxChanged /\ lp0 >= prev.messages
    /\ prev.messages > 0
    /\ sendersTable # EmptyBag
    /\ RunReturnedOK

(***************************************************************************)
(* C7. Resume correctness. A run's first batch starts at the stored        *)
(* last_processed_uid + 1 and no batch of it holds a UID at or below it;   *)
(* as claimed, a run that follows a completed run on a mailbox of N        *)
(* messages, now of N' > N, asks for exactly the UIDs N+1..N'.             *)
(***************************************************************************)
StartsAfterCheckpoint ==
    /\ runLog # <<>> => runLog[1].s = lp0 + 1
    /\ \A k \in 1..Len(runLog) : runLog[k].s > lp0
C7_ResumeCorrectness_AsClaimed ==
    /\ StartsAfterCheckpoint
    /\ (RunReturnedOK /\ prev.result = "ok" /\ mboxMessages > prev.messages)
           => Covers(runLog, prev.messages + 1, mboxMessages)

\* C7 as amended: ... a completed run that left last_processed_uid = N.
C7_ResumeCorrectness ==
    /\ StartsAfterCheckpoint
    /\ (/\ RunReturnedOK
        /\ prev.result = "ok"
        /\ mboxMessages > prev.messages
        /\ lp0 = prev.messages)
           => Covers(runLog, prev.messages + 1, mboxMessages)

\* A run on a mailbox grown since a run that had finished it has returned,
\* having asked for more than one batch.
C7_Witness ==
    /\ RunReturnedOK
    /\ prev.result = "ok"
    /\ lp0 = prev.messages
    /\ prev.messages > 0
    /\ mboxMessages > prev.messages
    /\ Len(runLog) >= 2

(***************************************************************************)
(* C8. Progress monotonicity. The stored last_processed_uid never          *)
(* decreases; as claimed, a run in which no batch fails ends with          *)
(* last_processed_uid = processed_count = the mailbox size.                *)
(***************************************************************************)
NoBatchFailed == \A k \in 1..Len(runLog) : runLog[k].ok
NeverDecreases ==
    [][StoredLastProcessedUID' >= StoredLastProcessedUID]_vars
C8_Monotonic_AsClaimed ==
    /\ NeverDecreases
    /\ [](RunReturnedOK /\ NoBatchFailed =>
             /\ StoredLastProcessedUID = mboxMessages
             /\ StoredProcessedCount = mboxMessages)

\* C8 as amended: ... a run that returns nil on a mailbox no smaller than
\* the stored last_processed_uid, in which no batch fails and no
\* saveProgress fails, ends with last_processed_uid = the mailbox size, and
\* with processed_count = the mailbox size when it fetched a batch.
C8_Monotonic ==
    /\ NeverDecreases
    /\ [](RunReturnedOK /\ NoBatchFailed /\ ~saveFailed /\ mboxMessages >= lp0 =>
             /\ StoredLastProcessedUID = mboxMessages
             /\ runLog # <<>> => StoredProcessedCount = mboxMessages)

\* A later run of several batches, none of which failed, has returned with
\* the checkpoint at the mailbox size, after some operation had failed.
C8_Witness ==
    /\ RunReturnedOK
    /\ NoBatchFailed /\ ~saveFailed
    /\ Len(runLog) >= 2
    /\ lp0 > 0
    /\ faults > 0
    /\ StoredLastProcessedUID = mboxMessages
    /\ StoredProcessedCount = mboxMessages

(***************************************************************************)
(* C9. Batch partition. With s = last_processed_uid + 1, N the mailbox     *)
(* size and B the batch size, the k-th batch a run asks for is             *)
(* [s + (k-1)B, min(s + kB - 1, N)]; the batches follow one another        *)
(* without gap or overlap, hold at most B UIDs each, and a run that        *)
(* returns nil has asked for all of s..N.                                  *)
(***************************************************************************)
C9_BatchPartition ==
    (pc \notin {"idle", "loadProgress", "dial", "login", "select"}) =>
        /\ \A k \in 1..Len(runLog) :
              /\ runLog[k].s = (lp0 + 1) + (k - 1) * BatchSize
              /\ runLog[k].e = Min((lp0 + 1) + k * BatchSize - 1, mboxMessages)
              /\ runLog[k].s <= runLog[k].e
              /\ runLog[k].e - runLog[k].s + 1 <= BatchSize
        /\ \A k \in 1..(Len(runLog) - 1) : runLog[k + 1].s = runLog[k].e + 1
        /\ (pc = "logout" /\ result = "ok") =>
               Covers(runLog, lp0 + 1, mboxMessages)

\* The run of the example has returned: 1247 messages (the largest
\* mailbox), batches of 500, nothing stored before.
C9_Witness ==
    /\ pc = "logout" /\ result = "ok"
    /\ BatchSize = DefaultBatchSize
    /\ mboxMessages = MaxMessages
    /\ lp0 = 0
    /\ Len(runLog) = 3
    /\ runLog[2] = [s |-> 501, e |-> 1000, ok |-> TRUE]

(***************************************************************************)
(* C10. The stored checkpoint is at or beyond the end of a fetched batch   *)
(* only if the senders of that batch are in the senders table.             *)
(***************************************************************************)
C10_NoSenderLost ==
    \A r \in fetchedOK :
        r.e <= StoredLastProcessedUID => r.emails \subseteq TableEmails

(***************************************************************************)
(* C11. The existence check never reports a stored address as absent: no   *)
(* sender kept as new, after the filter over emailExists, has its address  *)
(* in the senders table (a failed lookup is an error, not "absent").       *)
(***************************************************************************)
C11_LookupErrorNotAbsent ==
    pc = "save" => \A s \in newSenders : s.Email \notin TableEmails

(***************************************************************************)
(* C12. saveSendersBatch is all-or-nothing: a call either stores the       *)
(* address of every sender it was given or leaves the senders table as it  *)
(* was.                                                                    *)
(***************************************************************************)
C12_AllOrNothing ==
    [][pc = "save" =>
          \/ sendersTable' = sendersTable
          \/ \A s \in newSenders :
                 \E r \in BagToSet(sendersTable') : r.email = s.Email]_vars

(***************************************************************************)
(* C13. A run in which saveProgress failed does not return nil.            *)
(***************************************************************************)
C13_SaveFailureReported ==
    (pc \in {"logout", "idle"} /\ result = "ok") => ~saveFailed

(***************************************************************************)
(* C14. Bounded rework. At the start of a run on the mailbox of the run    *)
(* before it, the batches fetched and stored by earlier runs that reach    *)
(* beyond the stored last_processed_uid, and so are fetched again, lie     *)
(* within one of those batches: at most one batch is reprocessed.          *)
(***************************************************************************)
Reprocessed ==
    { r \in fetchedOK : r.e > lp0 /\ r.emails \subseteq TableEmails }
C14_BoundedRework ==
    (pc \in {"loadProgress", "dial", "login", "select"} /\ ~prev.inboxChanged) =>
        \/ Reprocessed = {}
        \/ \E r \in fetchedOK : \A q \in Reprocessed : r.s <= q.s /\ q.e <= r.e

(***************************************************************************)
(* C15. A failed batch does not end the run: a run in which a batch failed *)
(* returns nil, having asked for every batch from last_processed_uid + 1   *)
(* up to the mailbox size, in order, and for no range twice.               *)
(***************************************************************************)
C15_FailureDoesNotHalt ==
    /\ pc = "batchError" => result = "none"
    /\ (pc \in {"logout", "idle"} /\ ~NoBatchFailed) =>
          /\ result = "ok"
          /\ Covers(runLog, lp0 + 1, mboxMessages)
          /\ \A j, k \in 1..Len(runLog) : j < k => runLog[j].e < runLog[k].s

\* A run of three batches, the first of which failed and the others were
\* fetched, has returned.
C15_Witness ==
    /\ pc = "idle" /\ result = "ok"
    /\ Len(runLog) = 3
    /\ ~runLog[1].ok /\ runLog[2].ok /\ runLog[3].ok

(***************************************************************************)
(* C16. A run in which a batch failed returns nil and ends with a stored   *)
(* processed_count below the mailbox size.                                 *)
(***************************************************************************)
C16_ReducedProcessedCount ==
    (RunReturnedOK /\ ~NoBatchFailed) =>
        StoredProcessedCount < mboxMessages

(***************************************************************************)
(* C17. Fatal session errors. While the run loads the checkpoint,          *)
(* connects, logs in and selects the mailbox it changes neither table and  *)
(* asks for no batch; when one of these steps fails the run returns an     *)
(* error at once, without another attempt, and nothing is changed after.   *)
(***************************************************************************)
SessionSteps == {"loadProgress", "dial", "login", "select"}
C17_FatalSessionErrors ==
    [][/\ pc \in SessionSteps =>
              /\ UNCHANGED dbVars
              /\ runLog' = <<>>
              /\ faults' # faults =>
                     (result' = "err" /\ pc' \in {"idle", "logout"})
       /\ pc = "logout" =>
              (pc' = "idle" /\ UNCHANGED << dbVars, result, runLog >>)]_vars

\* The login or the selection of the mailbox has failed in a run that
\* follows a run which stored senders and a checkpoint.
C17_Witness ==
    /\ pc = "logout" /\ result = "err"
    /\ runLog = <<>>
    /\ prev.ran /\ prev.result = "ok"
    /\ lp0 > 0
    /\ sendersTable # EmptyBag

(***************************************************************************)
(* C18. Session ordering. A run connects after it loaded the checkpoint,   *)
(* logs in after it connected, selects the mailbox after it logged in and  *)
(* enters the batch loop after it selected the mailbox; a batch is asked   *)
(* for only in the loop, and a run comes to return nil only from the       *)
(* selection of the mailbox onwards.                                       *)
(***************************************************************************)
C18_SessionOrdering ==
    [][/\ pc' = "loadProgress" => pc = "idle"
       /\ pc' = "dial" => pc = "loadProgress"
       /\ pc' = "login" => pc = "dial"
       /\ pc' = "select" => pc = "login"
       /\ pc' = "batch" => pc \in {"select", "batchError", "update"}
       /\ pc' \in {"filter", "batchError"} => pc = "batch"
       /\ runLog' \notin {runLog, <<>>} => pc = "batch"
       /\ (result' = "ok" /\ result # "ok") =>
              pc \in {"select", "batchError", "update"}]_vars

\* A run that went through every step and two batches has returned nil.
C18_Witness ==
    /\ pc = "logout" /\ result = "ok"
    /\ Len(runLog) >= 2
    /\ runLog[Len(runLog)].ok

(***************************************************************************)
(* C19. After a run that selected the mailbox and returned nil, and in     *)
(* which no saveProgress failed, the stored total_messages is the mailbox  *)
(* size that run read.                                                     *)
(***************************************************************************)
StoredTotalMessages ==
    IF HasProgressRow(scan_progress) THEN Checkpoint.total_messages ELSE 0
C19_TotalRefreshed ==
    (pc = "logout" /\ result = "ok" /\ ~saveFailed) =>
        StoredTotalMessages = mboxMessages

(***************************************************************************)
(* C20. Zero-work fast paths. The checkpoint in memory is the stored one   *)
(* when the mailbox is selected; when the mailbox is empty or              *)
(* last_processed_uid + 1 is beyond its size, the run returns nil from     *)
(* there without asking for a batch, and neither table is changed, then or *)
(* when the connection is closed.                                          *)
(***************************************************************************)
C20_ZeroWorkFastPaths ==
    /\ [](pc = "select" =>
             /\ progress.LastProcessedUID = StoredLastProcessedUID
             /\ progress.ProcessedCount = StoredProcessedCount)
    /\ [][/\ (/\ pc = "select"
              /\ faults' = faults
              /\ (inbox = 0 \/ progress.LastProcessedUID + 1 > inbox)) =>
                 /\ pc' = "logout" /\ result' = "ok"
                 /\ runLog' = <<>>
                 /\ UNCHANGED dbVars
          /\ pc = "logout" => UNCHANGED << dbVars, runLog >>]_vars

\* A run on a mailbox that has shrunk below the stored last_processed_uid
\* has returned nil without a batch.
C20_Witness ==
    /\ pc = "logout" /\ result = "ok"
    /\ runLog = <<>>
    /\ mboxMessages > 0
    /\ lp0 > mboxMessages
    /\ sendersTable # EmptyBag

(***************************************************************************)
(* C21. The checkpoint is saved after every batch, fetched or failed: when *)
(* the next batch is about to be asked for, or the loop has ended, and no  *)
(* saveProgress of the run failed, the stored checkpoint is the one in     *)
(* memory and stands at the end of the last batch if it was fetched and    *)
(* just before it if it failed; at most one fetched batch of the run, the  *)
(* one being worked on, reaches beyond the stored checkpoint.              *)
(***************************************************************************)
LastBatch == runLog[Len(runLog)]
CheckpointAfter(b) == IF b.ok THEN b.e ELSE FailedBatchCheckpoint(b.s)
BeyondCheckpoint ==
    { k \in 1..Len(runLog) :
        runLog[k].ok /\ runLog[k].e > StoredLastProcessedUID }
C21_CheckpointAfterEveryBatch ==
    (runLog # <<>> /\ ~saveFailed) =>
        /\ pc \in {"batch", "logout"} =>
              /\ loadProgress(scan_progress) = progress
              /\ StoredLastProcessedUID = CheckpointAfter(LastBatch)
              /\ BeyondCheckpoint = {}
        /\ pc \in {"filter", "save", "update"} =>
              BeyondCheckpoint = {Len(runLog)}
        /\ pc = "batchError" => BeyondCheckpoint = {}

\* The third batch of a run is about to be asked for, after a fetched batch
\* and a failed one, each followed by its save.
C21_Witness ==
    /\ pc = "batch" /\ ~saveFailed
    /\ Len(runLog) = 2
    /\ runLog[1].ok /\ ~runLog[2].ok
    /\ StoredLastProcessedUID = runLog[1].e

(***************************************************************************)
(* C22. Read-only access. No step of a run, from its start to the closing  *)
(* of the connection, changes the \Seen flag of a message or the number of *)
(* messages of the mailbox: every fetch is a peek.                         *)
(***************************************************************************)
C22_ReadOnlyAccess ==
    [][(pc # "idle" \/ pc' # "idle") => UNCHANGED << inbox, seen >>]_vars

\* A run has fetched unread messages, in more than one batch, and returned.
C22_Witness ==
    /\ pc = "logout" /\ result = "ok"
    /\ Len(runLog) >= 2
    /\ \E k \in 1..Len(runLog) :
          runLog[k].ok /\ (runLog[k].s..runLog[k].e) \ seen # {}

(***************************************************************************)
(* C23. The batch fetch is blocking and the batches are strictly           *)
(* sequential: at most one c.Fetch is at work at any time; when            *)
(* processBatch has returned its goroutine has ended and the channels      *)
(* messages and done are empty, so every message the fetch delivered was   *)
(* consumed; the next fetch starts, and the checkpoint is written, only in *)
(* such a state.                                                           *)
(***************************************************************************)
StreamAtRest ==
    /\ stream.fetching = {}
    /\ stream.messages = <<>>
    /\ stream.done = <<>>
\* The first UIDs of the ranges whose c.Fetch has not ended.
FetchesOf(st) == { f.first : f \in st.fetching }
C23_BlockingSequentialBatches ==
    /\ [](Cardinality(stream.fetching) <= 1)
    /\ [](pc \notin {"range", "done"} => StreamAtRest)
    /\ [][(scan_progress' # scan_progress \/ sendersTable' # sendersTable)
             => (StreamAtRest /\ stream' = stream)]_vars
    /\ [][FetchesOf(stream') \ FetchesOf(stream) # {} =>
             (StreamAtRest /\ pc = "batch")]_vars

\* The second batch of a run is being fetched and consumed, the channel
\* messages is full, and the checkpoint of the first batch is stored.
C23_Witness ==
    /\ pc = "range"
    /\ Len(runLog) = 1 /\ runLog[1].ok
    /\ StoredLastProcessedUID = runLog[1].e
    /\ Len(stream.messages) = MessagesCap
    /\ stream.senderMap # <<>>

(***************************************************************************)
(* C24. The senders processBatch returns for a fetched batch hold no empty *)
(* identity and at most one identity per lower-cased address, and the      *)
(* address of every message of the batch whose From header parses is       *)
(* among them.                                                             *)
(***************************************************************************)
HasParsableFrom(msg) == msg.kind = "from" /\ ~msg.from.err
\* The addresses of the catalog in lower case (the empty string where the
\* From header is missing or does not parse).
LowerAddress ==
    << ToLower(Catalog[1].from.Address), ToLower(Catalog[2].from.Address),
       ToLower(Catalog[3].from.Address), ToLower(Catalog[4].from.Address),
       ToLower(Catalog[5].from.Address), ToLower(Catalog[6].from.Address),
       ToLower(Catalog[7].from.Address), ToLower(Catalog[8].from.Address),
       ToLower(Catalog[9].from.Address), ToLower(Catalog[10].from.Address) >>
\* The entries of the catalog that the messages first..last are: those of
\* the first and the third message of every hundred, and the second entry
\* for any other message.
CatalogIndices(first, last) ==
    { CatalogIndex(i) :
          i \in { 100 * h + d : h \in ((first - 1) \div 100)..((last - 1) \div 100),
                                d \in { 1, 3 } } \cap (first..last) }
        \cup { 2 : i \in { j \in { first, first + 1 } \cap (first..last) :
                              (j - 1) % 100 \notin { 0, 2 } } }
\* The messages of the batch at hand, as entries of the catalog.
BatchCatalog == CatalogIndices(currentUID, endUID)
C24_OneIdentityPerAddress ==
    pc = "filter" =>
        /\ \A s \in senders : s.Email # <<>>
        /\ Cardinality({ ToLower(s.Email) : s \in senders })
               = Cardinality(senders)
        /\ \A k \in BatchCatalog :
              HasParsableFrom(Catalog[k]) =>
                  LowerAddress[k] \in Emails(senders)

\* A batch has been fetched in which an address comes with two display
\* names and in two spellings, the lower-case one first, among messages
\* that yield no sender.
C24_Witness ==
    /\ pc = "filter"
    /\ \E i, j \in currentUID..endUID :
          /\ i < j
          /\ HasParsableFrom(MessageAt(i)) /\ HasParsableFrom(MessageAt(j))
          /\ MessageAt(i).from.Address # MessageAt(j).from.Address
          /\ MessageAt(i).from.Address = ToLower(MessageAt(j).from.Address)
          /\ MessageSender(MessageAt(i)) # MessageSender(MessageAt(j))
    /\ \E i \in currentUID..endUID : ~HasParsableFrom(MessageAt(i))
    /\ Cardinality(senders) >= 3

(***************************************************************************)
(* C25. Parse resilience. A message without body section, one that cannot  *)
(* be read, one without From header and one whose From header does not     *)
(* parse yield the empty sender and are skipped: the batch they are in     *)
(* fails only when the fetch fails, the senders returned are exactly those *)
(* of its other messages, and when nothing fails these are stored.         *)
(***************************************************************************)
C25_ParseResilience ==
    /\ \A k \in 1..Len(Catalog) :
          ~HasParsableFrom(Catalog[k]) => CatalogSender[k] = EmptySender
    /\ parseSender(ParseError) = EmptySender
    /\ faults = 0 => (pc # "batchError" /\ NoBatchFailed)
    /\ pc \in {"filter", "save", "update"} =>
          /\ LET others == { CatalogSender[k] :
                     k \in { j \in BatchCatalog : HasParsableFrom(Catalog[j]) } }
             IN  senders \subseteq others /\ Emails(senders) = Emails(others)
          /\ EmptySender \notin senders
    /\ (pc = "update" /\ faults = 0) => Emails(senders) \subseteq TableEmails

\* A batch that holds a message of each of the four kinds has been fetched
\* and the senders of its other messages are stored.
C25_Witness ==
    /\ pc = "update" /\ faults = 0
    /\ \A kind \in {"nobody", "unreadable", "nofrom"} :
          \E k \in BatchCatalog : Catalog[k].kind = kind
    /\ \E k \in BatchCatalog : Catalog[k].kind = "from" /\ Catalog[k].from.err
    /\ senders # {}
    /\ Emails(senders) \subseteq TableEmails

(***************************************************************************)
(* C26. Append-only identity set. No step deletes a row of senders or      *)
(* changes its name: every row stays as it is, also when its address is    *)
(* seen again under another name and saved again, and the number of rows   *)
(* never decreases.                                                        *)
(***************************************************************************)
C26_AppendOnlySenders ==
    [][/\ \A r \in BagToSet(sendersTable) :
              CopiesIn(r, sendersTable') >= CopiesIn(r, sendersTable)
       /\ BagCardinality(sendersTable') >= BagCardinality(sendersTable)]_vars

\* An address that is stored has been fetched again under another name,
\* taken for new after a failed lookup, and saved again.
C26_Witness ==
    /\ pc = "update"
    /\ \E s \in newSenders :
          \E r \in BagToSet(sendersTable) :
              r.email = s.Email /\ r.full_name # s.FullName

(***************************************************************************)
(* C27. Singleton checkpoint. From the first initDB on, whatever runs,     *)
(* saves and further initDB calls follow, scan_progress holds exactly one  *)
(* row, and its id is 1.                                                   *)
(***************************************************************************)
C27_SingletonCheckpoint ==
    runs > 0 =>
        /\ Cardinality(scan_progress) = 1
        /\ \A r \in scan_progress : r.id = 1

\* initDB has run again on a checkpoint that saves had moved, and the run
\* it began has saved the checkpoint again.
C27_Witness ==
    /\ runs >= 2
    /\ lp0 > 0
    /\ StoredLastProcessedUID > lp0
    /\ pc = "idle"

(***************************************************************************)
(* C28. Resume depends on last_processed_uid alone. Two runs on the same   *)
(* mailbox that start from the same last_processed_uid and the same        *)
(* senders, with another processed_count and another total_messages, and   *)
(* meet the same outcomes, ask for the same batches in the same order,     *)
(* return together, and hold the same last_processed_uid and the same      *)
(* senders all along.                                                      *)
(***************************************************************************)
StoredIn(st) == CHOOSE r \in st.scan_progress : r.id = 1
C28_ResumeSolelyOnLastProcessedUID ==
    /\ twin.a.runLog = twin.b.runLog
    /\ twin.a.pc = twin.b.pc
    /\ twin.a.result = twin.b.result
    /\ twin.a.currentUID = twin.b.currentUID
    /\ StoredIn(twin.a).last_processed_uid = StoredIn(twin.b).last_processed_uid
    /\ twin.a.sendersTable = twin.b.sendersTable

\* Two runs of two batches, which started with another processed_count,
\* have returned; the first batch failed and the second stored senders.
C28_Witness ==
    /\ twin.a.pc = "returned" /\ twin.b.pc = "returned"
    /\ Len(twin.a.runLog) = 2
    /\ ~twin.a.runLog[1].ok /\ twin.a.runLog[2].ok
    /\ twin.a.sendersTable # EmptyBag
    /\ StoredIn(twin.a).last_processed_uid = inbox

(***************************************************************************)
(* C29. Name derivation. Without display name the name is made of the text *)
(* before the first "@": its maximal runs of characters other than ".",    *)
(* "_" and "-", each in lower case with its first character in upper case, *)
(* one space between them ("john.doe@x.com" gives "John Doe",              *)
(* "john.doe_smith@x.com" gives "John Doe Smith", "a@x.com" gives "A", an  *)
(* empty local part gives ""); with a display name the name is the display *)
(* name without the spaces around it.                                      *)
(***************************************************************************)
\* The text of s before its first "@".
LocalPartOf(s) ==
    LET ats == { i \in 1..Len(s) : s[i] = "@" }
    IN  IF ats = {} THEN s
        ELSE SubSeq(s, 1, (CHOOSE i \in ats : \A j \in ats : i <= j) - 1)

\* Where the fragments of u begin, where the fragment that begins at s ends,
\* and where it begins in the name.
FragmentStarts(u) ==
    { i \in 1..Len(u) :
        /\ u[i] \notin { ".", "_", "-" }
        /\ (i = 1 \/ u[i - 1] \in { ".", "_", "-" }) }
FragmentEnd(u, s) ==
    CHOOSE e \in s..Len(u) :
        /\ \A k \in s..e : u[k] \notin { ".", "_", "-" }
        /\ (e = Len(u) \/ u[e + 1] \in { ".", "_", "-" })
FragmentOffset(u, s) ==
    Cardinality({ i \in 1..(s - 1) : u[i] \notin { ".", "_", "-" } })
    + Cardinality({ i \in FragmentStarts(u) : i < s })

\* name is the name derived from the local part u.
IsDerivedName(name, u) ==
    /\ Len(name) =
           IF FragmentStarts(u) = {} THEN 0
           ELSE Cardinality({ i \in 1..Len(u) : u[i] \notin { ".", "_", "-" } })
                + Cardinality(FragmentStarts(u)) - 1
    /\ \A s \in FragmentStarts(u) :
          /\ FragmentOffset(u, s) > 0 => name[FragmentOffset(u, s)] = " "
          /\ \A k \in s..FragmentEnd(u, s) :
                name[FragmentOffset(u, s) + (k - s) + 1] =
                    IF k = s THEN ToUpperChar(ToLowerChar(u[k]))
                    ELSE ToLowerChar(u[k])

\* name is display without the spaces around it.
IsTrimmed(name, display) ==
    \E i \in 1..(Len(display) + 1), j \in 0..Len(display) :
        /\ name = SubSeq(display, i, j)
        /\ \A k \in 1..(i - 1) : display[k] = " "
        /\ \A k \in (j + 1)..Len(display) : display[k] = " "
        /\ name # <<>> => (name[1] # " " /\ name[Len(name)] # " ")

C29_NameDerivation ==
    /\ extractNameFromEmail(<<"@", "x", ".", "c", "o", "m">>) = <<>>
    /\ parsed.done =>
          /\ IsDerivedName(parsed.derived, LocalPartOf(parsed.addr.Address))
          /\ parsed.addr.Name = <<>> =>
                IsDerivedName(parsed.sender.FullName,
                              LocalPartOf(parsed.addr.Address))
          /\ parsed.addr.Name # <<>> =>
                IsTrimmed(parsed.sender.FullName, parsed.addr.Name)
          /\ (parsed.addr.Name = <<>> /\ Len(parsed.addr.Address) > 6) =>
                parsed.sender.FullName \in
                    { <<"J", "o", "h", "n", " ", "D", "o", "e">>,
                      <<"J", "o", "h", "n", " ", "D", "o", "e", " ",
                        "S", "m", "i", "t", "h">>,
                      <<"A">> }

\* The name of john.doe_smith@x.com has been derived.
C29_Witness ==
    /\ parsed.done
    /\ parsed.addr.Name = <<>>
    /\ parsed.sender.FullName =
           <<"J", "o", "h", "n", " ", "D", "o", "e", " ", "S", "m", "i", "t", "h">>

(***************************************************************************)
(* C30. The address is the key, in lower case: every stored email is in    *)
(* lower case, no two rows hold addresses that differ only in the case of  *)
(* their letters, and when nothing fails every address of a fetched batch, *)
(* however it is written in that batch, in earlier batches or in earlier   *)
(* runs, has exactly one row.                                              *)
(***************************************************************************)
\* The upper-case letters, and a string that strings.ToLower leaves as it
\* is.
Uppers == { UpperLetters[i] : i \in 1..26 }
IsLowerCase(s) == \A i \in 1..Len(s) : s[i] \notin Uppers
RowsOf(email) == { r \in BagToSet(sendersTable) : ToLower(r.email) = ToLower(email) }
C30_LowercaseIdentityKey ==
    /\ \A r \in BagToSet(sendersTable) :
          /\ IsLowerCase(r.email)
          /\ CopiesIn(r, sendersTable) = 1
    /\ Cardinality(TableEmails) = BagCardinality(sendersTable)
    /\ (pc = "update" /\ faults = 0) =>
          \A k \in BatchCatalog :
              HasParsableFrom(Catalog[k]) =>
                  LowerAddress[k] \in TableEmails

\* The second batch of a run holds an address in lower case and in upper
\* case, in upper case it was in the first batch too, and it has one row.
C30_Witness ==
    /\ pc = "update" /\ faults = 0
    /\ Len(runLog) = 2
    /\ \E j, k \in BatchCatalog :
          /\ HasParsableFrom(Catalog[j]) /\ HasParsableFrom(Catalog[k])
          /\ Catalog[j].from.Address # Catalog[k].from.Address
          /\ ToLower(Catalog[j].from.Address) = Catalog[k].from.Address
          /\ CatalogIndex(runLog[1].s) = j
          /\ Cardinality(RowsOf(Catalog[j].from.Address)) = 1

(***************************************************************************)
(* C31. Every sender processBatch returns and every row of senders that    *)
(* holds an address holds a name too, also when the local part of the      *)
(* address is made of '.', '_' and '-' only.                               *)
(***************************************************************************)
C31_NameWheneverAddress ==
    /\ \A s \in senders : s.Email # <<>> => s.FullName # <<>>
    /\ \A r \in BagToSet(sendersTable) : r.email # <<>> => r.full_name # <<>>

(***************************************************************************)
(* C32. Once parseFlags has run config.BatchSize lies in 100..2000, and    *)
(* it is 500 when -batch was below 100 or above 2000; every batch asked    *)
(* for holds between 1 and 2000 messages, and every iteration of the loop  *)
(* moves currentUID forward by at least 100.                               *)
(***************************************************************************)
C32_BatchSizeClamped ==
    /\ [](loop.pc # "flags" =>
             /\ loop.BatchSize \in MinBatchSize..MaxBatchSize
             /\ (loop.flag < MinBatchSize \/ loop.flag > MaxBatchSize) =>
                    loop.BatchSize = DefaultBatchSize)
    /\ [](loop.pc = "fetch" =>
             /\ Leq32(loop.currentUID, loop.endUID)
             /\ Lt32(Sub32(loop.endUID, loop.currentUID),
                     ToUint32(MaxBatchSize)))
    /\ [][loop.pc = "fetch" =>
             /\ Lt32(loop.currentUID, loop'.currentUID)
             /\ Leq32(ToUint32(MinBatchSize),
                      Sub32(loop'.currentUID, loop.currentUID))]_vars

\* A run given a -batch above 2000 has asked for its second batch, of 500
\* messages.
C32_Witness ==
    /\ loop.flag > MaxBatchSize
    /\ loop.pc = "fetch" /\ loop.batches = 2
    /\ Sub32(loop.endUID, loop.currentUID) = ToUint32(DefaultBatchSize - 1)

(***************************************************************************)
(* C33. A batch whose fetch ends with an error adds nothing to the         *)
(* database: the senders taken from the messages that came before the      *)
(* error are dropped, emailExists and saveSendersBatch are not called for  *)
(* it, and processed_count stays as it is.                                 *)
(***************************************************************************)
\* The fetch of the batch at hand has returned an error, which waits in
\* done.
FetchFailed == stream.done # <<>> /\ Head(stream.done)
\* What a failed batch leaves alone whatever is read as its count.
FailedBatchAddsNothing ==
    /\ (pc = "done" /\ FetchFailed) =>
           /\ pc' \in {"done", "batchError"}
           /\ pc' = "batchError" => senders' = {}
           /\ UNCHANGED << dbVars, newSenders, progress >>
    /\ pc = "batchError" =>
           /\ pc' \in {"batch", "logout"}
           /\ senders = {}
           /\ UNCHANGED << sendersTable, batchVars, inserted >>
C34_CheckpointOrdered ==
    \A r \in scan_progress :
        /\ r.processed_count <= r.last_processed_uid
        /\ r.last_processed_uid <= r.total_messages

\* A run in which batches failed has left a checkpoint beyond its count of
\* processed messages; the mailbox has then shrunk below that checkpoint,
\* and another run has returned.
C34_Witness ==
    /\ pc = "logout" /\ result = "ok"
    /\ inboxChanged /\ prev.ran
    /\ mboxMessages < StoredLastProcessedUID
    /\ 0 < StoredProcessedCount
    /\ StoredProcessedCount < StoredLastProcessedUID

(***************************************************************************)
(* C35. The hand-off inside processBatch. While a batch is fetched and     *)
(* consumed some step of the goroutine or of the loop can always be taken; *)
(* the channel messages never holds more than 50 messages, and holds them  *)
(* in the order of their sequence numbers, none twice and none left out;   *)
(* the loop takes them from its head one by one, so that the senders       *)
(* returned are those of the whole range taken in order; and done is read  *)
(* only when messages is closed and empty.                                 *)
(***************************************************************************)
\* A step of processBatch or of its goroutine.
BatchStep ==
    \/ FetchDeliver
    \/ FetchReturn
    \/ SendDone
    \/ RangeNext
    \/ RangeEnd
    \/ ReceiveDone
\* The channel holds consecutive messages of the batch, and the last one
\* c.Fetch sent while c.Fetch is at work.
InDeliveryOrder(ch) ==
    /\ \A i \in 1..Len(ch) : ch[i] \in currentUID..endUID
    /\ \A i \in 1..(Len(ch) - 1) : ch[i + 1] = ch[i] + 1
    /\ \A f \in stream.fetching :
          CurrentFetch(f) =>
              /\ f.next \in f.first..(f.last + 1)
              /\ ch # <<>> => ch[Len(ch)] = f.next - 1
C35_ProducerConsumerHandoff ==
    /\ [](pc \in {"range", "done"} => ENABLED BatchStep)
    /\ [](Len(stream.messages) <= MessagesCap)
    /\ [](InDeliveryOrder(stream.messages))
    /\ [][stream'.messages # stream.messages =>
             \/ /\ stream.messages # <<>>
                /\ stream'.messages = Tail(stream.messages)
                /\ stream'.senderMap =
                       ConsumeMessage(stream.senderMap, Head(stream.messages))
             \/ /\ Len(stream.messages) < MessagesCap
                /\ Len(stream'.messages) = Len(stream.messages) + 1
                /\ SubSeq(stream'.messages, 1, Len(stream.messages))
                       = stream.messages
                /\ stream'.senderMap = stream.senderMap]_vars
    /\ [](pc = "filter" => senders = processBatch(currentUID, endUID))
    /\ [][Len(stream'.done) < Len(stream.done) =>
             (stream.closed /\ stream.messages = <<>>)]_vars

\* c.Fetch has sent more than a hundred messages of a batch of 500 and
\* waits with the next one: the channel is full.
C35_Witness ==
    /\ pc = "range"
    /\ endUID - currentUID + 1 = DefaultBatchSize
    /\ Len(stream.messages) = MessagesCap
    /\ \E f \in stream.fetching :
          /\ CurrentFetch(f) /\ ~f.returned
          /\ f.next > f.first + 2 * MessagesCap
          /\ f.next <= f.last
    /\ ~ENABLED FetchDeliver

(***************************************************************************)
(* C36. initDB is idempotent. The initDB at the start of a run leaves a    *)
(* stored checkpoint as it is, field by field, and every row of senders;   *)
(* it changes scan_progress only when there is no checkpoint yet, and then *)
(* it stores the zeroed one; run once more it changes nothing.             *)
(***************************************************************************)
C36_InitIdempotent ==
    /\ [](initDB(initDB(scan_progress)) = initDB(scan_progress))
    /\ [][(pc = "idle" /\ pc' = "loadProgress") =>
             /\ sendersTable' = sendersTable
             /\ scan_progress' = initDB(scan_progress)
             /\ HasProgressRow(scan_progress) =>
                    /\ scan_progress' = scan_progress
                    /\ loadProgress(scan_progress') = loadProgress(scan_progress)
             /\ scan_progress' # scan_progress =>
                    /\ scan_progress = {} /\ runs = 0
                    /\ scan_progress' = {ZeroProgressRow}]_vars

\* A run has started, and gone through initDB, on a database in which an
\* earlier run left a checkpoint and senders.
C36_Witness ==
    /\ pc = "loadProgress" /\ runs >= 2
    /\ StoredLastProcessedUID > 0
    /\ StoredTotalMessages > 0
    /\ StoredProcessedCount > 0
    /\ sendersTable # EmptyBag

(***************************************************************************)
(* C37. First sighting wins. The sender processBatch returns for an        *)
(* address is the one of the first message of the batch that carries the   *)
(* address, and the row stored for an address is the sender of the first   *)
(* fetched batch that held the address.                                    *)
(***************************************************************************)
\* The first message of first..last whose From header parses to email.
FirstSighting(first, last, email) ==
    CHOOSE i \in first..last :
        /\ LowerAddress[CatalogIndex(i)] = email
        /\ \A j \in first..(i - 1) : LowerAddress[CatalogIndex(j)] # email
\* The fetched batches that held email, and the first of them (the batches
\* of a run follow each other, and a later run starts beyond the
\* checkpoint of the runs before).
FetchedWith(email) == { b \in fetchedOK : email \in b.emails }
FirstFetchedWith(email) ==
    CHOOSE b \in FetchedWith(email) : \A c \in FetchedWith(email) : b.s <= c.s
C37_FirstSightingWins ==
    /\ pc = "filter" =>
           \A s \in senders :
               s = CatalogSender[CatalogIndex(
                       FirstSighting(currentUID, endUID, s.Email))]
    /\ \A r \in BagToSet(sendersTable) :
           /\ FetchedWith(r.email) # {}
           /\ LET b == FirstFetchedWith(r.email)
              IN  r = SenderRow(CatalogSender[CatalogIndex(
                          FirstSighting(b.s, b.e, r.email))])

(***************************************************************************)
(* C38. A run that connected logs out once, when scanEmailsBatch returns   *)
(* and not before, whether the login or the selection of the mailbox       *)
(* failed, the mailbox was empty, everything was processed already or the  *)
(* loop ended; a run that did not connect does not log out.                *)
(***************************************************************************)
\* Where a run stands between client.DialTLS and its return.
Connected ==
    {"login", "select", "batch", "batchError", "filter", "save", "update"}
C38_LogoutExactlyOnce ==
    [][/\ pc \in Connected => pc' \in Connected \cup {"logout"}
       /\ pc' = "logout" =>
              /\ pc \in Connected
              /\ result' \in {"ok", "err"}
       /\ pc = "logout" => (pc' = "idle" /\ result' = result)
       /\ pc \in {"idle", "loadProgress", "dial"} =>
              pc' \in {"idle", "loadProgress", "dial", "login"}
       /\ (pc = "dial" /\ pc' # "login") =>
              (pc' = "idle" /\ result' = "err")
       /\ (pc = "select" /\ pc' = "logout" /\ result' = "ok") =>
              (inbox = 0 \/ AllProcessed(startUID', inbox))]_vars

\* A run in which a batch failed has come to its return and is about to log
\* out; the run before it had returned an error.
C38_Witness ==
    /\ pc = "logout" /\ result = "ok"
    /\ ~NoBatchFailed
    /\ prev.ran /\ prev.result = "err"

(***************************************************************************)
(* C39. In the arithmetic of uint32, whatever the size of the mailbox, the *)
(* stored last_processed_uid and the batch size in 100..2000, every batch  *)
(* the loop asks for has LastProcessedUID < currentUID <= endUID <=        *)
(* mbox.Messages.                                                          *)
(***************************************************************************)
C39_BatchWithinMailbox ==
    loop.pc = "fetch" =>
        /\ loop.BatchSize \in MinBatchSize..MaxBatchSize
        /\ Lt32(loop.LastProcessedUID, loop.currentUID)
        /\ Leq32(loop.currentUID, loop.endUID)
        /\ Leq32(loop.endUID, loop.Messages)

====
